---- MODULE Spec2Model ----
(***************************************************************************)
(* Model of static/admin/js/liveclass_admin.js: the DOMContentLoaded       *)
(* handler of the LiveClass admin form, its inner function                 *)
(* toggleDaysOfWeek, the change listener it subscribes on                  *)
(* #id_recurrence_type, and the style/layout set-up that follows.          *)
(*                                                                         *)
(* The page (which the host renders before the script runs) is the state:  *)
(* whether the recurrence select and the .field-days_of_week row exist,    *)
(* the row's inline display, the innerHTML of the row's first label, and   *)
(* the checked property of the row's checkboxes.  The label's innerHTML    *)
(* is a sequence of tokens: plain text, a '*' that is not part of the      *)
(* script's marker, and the exact string the script appends and removes.   *)
(* The label is the field's label: it holds no checkbox.                   *)
(***************************************************************************)
EXTENDS Naturals, Sequences, FiniteSets

\* Number of checkboxes in the row, and longest label the host renders.
NumBoxes == 2
MaxLabelLen == 2

\* The values the select can hold: weekly, two other recognised kinds, and
\* a string no recurrence kind uses.
Values == {"weekly", "daily", "monthly", "unrecognized"}
NonWeekly == Values \ {"weekly"}

\* Label tokens.
Text == "t"
Star == "*"
MarkerSpan == " <span style=\"color: red;\">*</span>"
Tokens == {Text, Star, MarkerSpan}

Boxes == 1..NumBoxes

VARIABLES
    pc,             \* "load" before DOMContentLoaded has run, "ready" after
    selectPresent,  \* document.querySelector('#id_recurrence_type') # null
    value,          \* recurrenceSelect.value
    rowPresent,     \* document.querySelector('.field-days_of_week') # null
    labelPresent,   \* daysOfWeekRow.querySelector('label') # null
    display,        \* daysOfWeekRow.style.display
    label,          \* label.innerHTML
    checked,        \* checkbox.checked of each checkbox of the row
    ulPresent,      \* document.querySelector('.field-days_of_week ul') # null
    ulDisplay,      \* daysOfWeekField.style.display
    liRows,         \* every li of the list carries class checkbox-row
    globalFn,       \* window.toggleDaysOfWeek is defined
    listener,       \* the change listener is subscribed on the select
    styleBlocks,    \* style elements this script appended to document.head
    threw,          \* a handler ended with an uncaught TypeError
    lastArg,        \* argument of the most recent toggleDaysOfWeek call
    prevArg,        \* argument of the call before that
    hostLabel       \* label.innerHTML as the host rendered it

vars == <<pc, selectPresent, value, rowPresent, labelPresent, display, label,
          checked, ulPresent, ulDisplay, liRows, globalFn, listener,
          styleBlocks, threw, lastArg, prevArg, hostLabel>>

page == <<selectPresent, rowPresent, labelPresent, ulPresent, hostLabel>>

----------------------------------------------------------------------------
\* Strings

Labels == UNION {[1..n -> Tokens] : n \in 0..MaxLabelLen}

\* label.textContent: the marker span renders as its '*'.
TextContent(html) ==
    [i \in DOMAIN html |-> IF html[i] = MarkerSpan THEN Star ELSE html[i]]

\* String.prototype.includes
Includes(text, ch) == \E i \in DOMAIN text : text[i] = ch

\* A replace whose pattern never matches the serialized innerHTML.
ReplaceNoMatch(html, pat) == html

\* String.prototype.replace with a string pattern and '': the first
\* occurrence only.
Replace(html, pat) ==
    IF \E i \in DOMAIN html : html[i] = pat
    THEN LET k == CHOOSE i \in DOMAIN html :
                     /\ html[i] = pat
                     /\ \A j \in 1..(i - 1) : html[j] # pat
         IN  SubSeq(html, 1, k - 1) \o SubSeq(html, k + 1, Len(html))
    ELSE html

\* label.innerHTML += ' <span style="color: red;">*</span>'
AppendMarker(html) == Append(html, MarkerSpan)

----------------------------------------------------------------------------
\* toggleDaysOfWeek

\* The part of the page toggleDaysOfWeek writes, plus whether it threw.
Dom == [display |-> display, label |-> label, checked |-> checked,
        threw |-> FALSE]

Throw(d) == [d EXCEPT !.threw = TRUE]

\* The row used without the test for its presence.
RowGuardMissing == TRUE

\* if (daysOfWeekRow)
RowGuard == rowPresent

\* The label used without the test for its presence.
LabelGuardMissing == TRUE

\* label && ...   and   if (label)
LabelGuard == labelPresent

\* A comparison that hides the row for 'daily' alone.
IsNotDaily(recurrenceType) == recurrenceType # "daily"

\* recurrenceType === 'weekly'
IsWeekly(recurrenceType) == recurrenceType = "weekly"

\* querySelector in place of querySelectorAll: the first checkbox only.
ClearFirstCheckbox(c) == [c EXCEPT ![1] = FALSE]

\* checkboxes.forEach(checkbox => { checkbox.checked = false; })
ClearCheckboxes(c) == [i \in DOMAIN c |-> FALSE]

\* The weekly branch without the test for a marker already there.
WeeklyBranchAppendsAlways(d) ==
    LET shown == [d EXCEPT !.display = "block"]
    IN  IF labelPresent
        THEN [shown EXCEPT !.label = AppendMarker(shown.label)]
        ELSE shown

\* The weekly branch clearing the checkboxes as the other branch does.
WeeklyBranchClears(d) ==
    LET shown == [d EXCEPT !.display = "block",
                           !.checked = [i \in DOMAIN d.checked |-> FALSE]]
    IN  IF labelPresent /\ ~Includes(TextContent(shown.label), Star)
        THEN [shown EXCEPT !.label = AppendMarker(shown.label)]
        ELSE shown

WeeklyBranch(d) ==
    LET shown == [d EXCEPT !.display = "block"]
    IN  IF LabelGuard
        THEN IF ~labelPresent
             THEN Throw(shown)
             ELSE IF ~Includes(TextContent(shown.label), Star)
                  THEN [shown EXCEPT !.label = AppendMarker(shown.label)]
                  ELSE shown
        ELSE shown

\* The other branch without the removal of the marker.
ElseBranchKeepsMarker(d) ==
    [d EXCEPT !.display = "none",
              !.checked = [i \in DOMAIN d.checked |-> FALSE]]

ElseBranch(d) ==
    LET hidden == [d EXCEPT !.display = "none"]
    IN  IF LabelGuard
        THEN IF ~labelPresent
             THEN Throw(hidden)
             ELSE [hidden EXCEPT !.label = Replace(hidden.label, MarkerSpan),
                                 !.checked = ClearCheckboxes(hidden.checked)]
        ELSE [hidden EXCEPT !.checked = ClearCheckboxes(hidden.checked)]

toggleDaysOfWeek(recurrenceType) ==
    IF RowGuard
    THEN IF ~rowPresent
         THEN Throw(Dom)
         ELSE IF IsWeekly(recurrenceType)
              THEN WeeklyBranch(Dom)
              ELSE ElseBranch(Dom)
    ELSE Dom

\* The page after a call, and the record of the call.
Apply(r, recurrenceType) ==
    /\ display' = r.display
    /\ label' = r.label
    /\ checked' = r.checked
    /\ threw' = (threw \/ r.threw)
    /\ lastArg' = recurrenceType
    /\ prevArg' = lastArg

----------------------------------------------------------------------------
\* The page before the script runs.

Init ==
    /\ pc = "load"
    /\ selectPresent \in BOOLEAN
    /\ value \in (IF selectPresent THEN Values ELSE {"none"})
    /\ rowPresent \in BOOLEAN
    /\ labelPresent \in (IF rowPresent THEN BOOLEAN ELSE {FALSE})
    /\ display \in (IF rowPresent THEN {"", "block", "none"} ELSE {""})
    /\ label \in (IF labelPresent THEN Labels ELSE {<<>>})
    /\ checked \in (IF rowPresent THEN [Boxes -> BOOLEAN]
                                  ELSE {[i \in Boxes |-> FALSE]})
    /\ ulPresent \in (IF rowPresent THEN BOOLEAN ELSE {FALSE})
    /\ ulDisplay = ""
    /\ liRows = FALSE
    /\ globalFn = FALSE
    /\ listener = FALSE
    /\ styleBlocks = 0
    /\ threw = FALSE
    /\ lastArg = "none"
    /\ prevArg = "none"
    /\ hostLabel = label

----------------------------------------------------------------------------
\* Handlers

\* The select used without the test for its presence.
SelectGuardMissing == TRUE

\* if (recurrenceSelect)
SelectGuard == selectPresent

\* The select's value attribute, which a select element does not have.
InitialValueAttribute == "null"

\* recurrenceSelect.value, the argument of the initial call
InitialValue == value

\* The DOMContentLoaded handler, whole: an uncaught exception ends it.
DOMContentLoaded ==
    /\ pc = "load"
    /\ pc' = "ready"
    /\ globalFn' = TRUE
    /\ IF SelectGuard
       THEN IF ~selectPresent
            THEN /\ threw' = TRUE
                 /\ UNCHANGED <<display, label, checked, lastArg, prevArg>>
            ELSE Apply(toggleDaysOfWeek(InitialValue), InitialValue)
       ELSE UNCHANGED <<display, label, checked, threw, lastArg, prevArg>>
    /\ IF threw'
       THEN UNCHANGED <<listener, styleBlocks, ulDisplay, liRows>>
       ELSE /\ listener' = SelectGuard
            /\ styleBlocks' = styleBlocks + 1
            /\ IF ulPresent
               THEN ulDisplay' = "grid" /\ liRows' = TRUE
               ELSE UNCHANGED <<ulDisplay, liRows>>
    /\ UNCHANGED <<value, page>>

\* A change event on the select: the select takes the value v, and the
\* listener, when subscribed, calls toggleDaysOfWeek(this.value).
ChangeEvent(v) ==
    /\ pc = "ready"
    /\ selectPresent
    /\ value' = v
    /\ IF listener
       THEN Apply(toggleDaysOfWeek(v), v)
       ELSE UNCHANGED <<display, label, checked, threw, lastArg, prevArg>>
    /\ UNCHANGED <<pc, page, ulDisplay, liRows, globalFn, listener,
                   styleBlocks>>

\* The host page calls window.toggleDaysOfWeek(v).
DirectCall(v) ==
    /\ pc = "ready"
    /\ globalFn
    /\ Apply(toggleDaysOfWeek(v), v)
    /\ UNCHANGED <<pc, value, page, ulDisplay, liRows, globalFn, listener,
                   styleBlocks>>

\* The user clicks a checkbox of the row, which a hidden row does not offer.
UserToggle(i) ==
    /\ pc = "ready"
    /\ rowPresent
    /\ display # "none"
    /\ checked' = [checked EXCEPT ![i] = ~checked[i]]
    /\ UNCHANGED <<pc, selectPresent, value, rowPresent, labelPresent,
                   display, label, ulPresent, ulDisplay, liRows, globalFn,
                   listener, styleBlocks, threw, lastArg, prevArg, hostLabel>>

Next ==
    \/ DOMContentLoaded
    \/ \E v \in Values : ChangeEvent(v)
    \/ \E v \in Values : DirectCall(v)
    \/ \E i \in Boxes : UserToggle(i)

Spec == Init /\ [][Next]_vars

\* The page driven by the user alone: change events and checkbox clicks.
NextEvents ==
    \/ DOMContentLoaded
    \/ \E v \in Values : ChangeEvent(v)
    \/ \E i \in Boxes : UserToggle(i)

SpecEvents == Init /\ [][NextEvents]_vars

----------------------------------------------------------------------------
\* Vocabulary of the properties

\* The required-marker glyphs the label shows: the '*' of its text.
RequiredMarkers(html) ==
    Cardinality({i \in DOMAIN html : TextContent(html)[i] = Star})

\* The label's only '*', if any, is one marker span of the script's form.
OwnMarkerOnly(html) ==
    /\ ~Includes(html, Star)
    /\ Cardinality({i \in DOMAIN html : html[i] = MarkerSpan}) <= 1

AllUnchecked == \A i \in Boxes : ~checked[i]

Max(a, b) == IF a >= b THEN a ELSE b

\* A step that is a call toggleDaysOfWeek(v) after initialization, made by
\* the change listener or by the host page.
Called(v) == DirectCall(v) \/ (ChangeEvent(v) /\ listener)

\* A step that is the page-ready handler making its initial call with v.
InitCalled(v) == DOMContentLoaded /\ selectPresent /\ value = v

----------------------------------------------------------------------------
\* C1 as stated (given a label that exists and whose only '*' is at most
\* one marker span): on a page with both elements, in every state after
\* initialization, under change events and direct calls with any value,
\* the container is visible with exactly one marker iff the select's value
\* is 'weekly', and hidden without marker otherwise.
C1_Original ==
    (pc = "ready" /\ selectPresent /\ rowPresent /\ labelPresent
        /\ OwnMarkerOnly(hostLabel))
    => IF value = "weekly"
       THEN display = "block" /\ RequiredMarkers(label) = 1
       ELSE display = "none" /\ RequiredMarkers(label) = 0

\* C1 amended: on a page with both elements, in every state after
\* initialization in which the most recent toggleDaysOfWeek call (by the
\* initial set-up, the change listener or the host page) was passed the
\* select's current value, the container is visible iff that value is
\* 'weekly'.  A label that exists then carries, when the value is 'weekly',
\* at least one marker and exactly one unless the host rendered several;
\* when the value is not 'weekly' it carries no marker but those of the
\* host's own text, and none at all when that text held no '*' other than
\* at most one marker span of the script's form.
C1_ConsistentWhenLastCallHadValue ==
    (pc = "ready" /\ selectPresent /\ rowPresent /\ lastArg = value)
    => /\ display = (IF value = "weekly" THEN "block" ELSE "none")
       /\ labelPresent
          => IF value = "weekly"
             THEN /\ RequiredMarkers(label) >= 1
                  /\ RequiredMarkers(label)
                        <= Max(1, RequiredMarkers(hostLabel))
             ELSE /\ RequiredMarkers(label) <= RequiredMarkers(hostLabel)
                  /\ OwnMarkerOnly(hostLabel) => RequiredMarkers(label) = 0

C1_Witness ==
    /\ pc = "ready" /\ selectPresent /\ rowPresent /\ labelPresent
    /\ prevArg = "daily" /\ lastArg = "weekly" /\ value = "weekly"
    /\ display = "block"
    /\ RequiredMarkers(hostLabel) = 0 /\ RequiredMarkers(label) = 1

\* C2: after a call toggleDaysOfWeek(v) on a present container, whatever
\* the container's state was before, the container is visible iff v is
\* 'weekly'; an unrecognized v hides it like any other non-weekly value.
C2_VisibleIffWeekly ==
    (rowPresent /\ lastArg # "none")
    => display = (IF lastArg = "weekly" THEN "block" ELSE "none")

C2_Witness ==
    /\ rowPresent /\ prevArg = "weekly" /\ lastArg = "unrecognized"
    /\ display = "none"

\* C3: on a page with both elements, under change events and user clicks
\* on the checkboxes, in every state after initialization where the
\* select's value is not 'weekly' the container is hidden and every
\* checkbox is unchecked.
C3_NoStaleSelection ==
    (pc = "ready" /\ selectPresent /\ rowPresent /\ value # "weekly")
    => display = "none" /\ AllUnchecked

C3_Witness ==
    /\ pc = "ready" /\ selectPresent /\ rowPresent
    /\ prevArg = "weekly" /\ lastArg = "monthly" /\ value = "monthly"
    /\ display = "none" /\ AllUnchecked

\* C4 as stated: after two or more consecutive calls
\* toggleDaysOfWeek('weekly') on a container whose label exists, the label
\* has exactly one required-marker, whatever its content was before.
C4_Original ==
    (rowPresent /\ labelPresent /\ prevArg = "weekly" /\ lastArg = "weekly")
    => RequiredMarkers(label) = 1

\* C4 amended: a call toggleDaysOfWeek('weekly') on a container whose label
\* exists leaves the label with at least one marker, with exactly one when
\* its text held at most one '*' before the call, and with the ones it held
\* when it held several; a call that follows another 'weekly' call leaves
\* the label as it is, so the marker is never added twice.
C4_WeeklyIdempotent ==
    [][ (rowPresent /\ labelPresent
            /\ (Called("weekly") \/ InitCalled("weekly")))
        => /\ RequiredMarkers(label') = Max(RequiredMarkers(label), 1)
           /\ lastArg = "weekly" => label' = label ]_vars

C4_Witness ==
    /\ rowPresent /\ labelPresent
    /\ prevArg = "weekly" /\ lastArg = "weekly"
    /\ RequiredMarkers(hostLabel) = 0 /\ RequiredMarkers(label) = 1

\* C5 as stated: after a call toggleDaysOfWeek(v) with a non-weekly v, from
\* any prior state, the label has zero required-markers and every checkbox
\* is unchecked.
C5_Original ==
    (rowPresent /\ lastArg \in NonWeekly)
    => /\ AllUnchecked
       /\ labelPresent => RequiredMarkers(label) = 0

\* C5 amended: from any prior state a call toggleDaysOfWeek(v) with a
\* non-weekly v leaves the container hidden and every checkbox unchecked,
\* and takes one marker span of the script's form, and nothing else, out of
\* the label: the label is left with zero markers exactly when its text
\* held no '*' other than at most one such span (a '*' of the host's own,
\* or a further copy of the span, stays).  A second consecutive non-weekly
\* call changes nothing once the label holds no such span.
C5_NonWeeklyClears ==
    [][ \A v \in NonWeekly :
          (rowPresent /\ (Called(v) \/ InitCalled(v)))
          => /\ display' = "none"
             /\ \A i \in Boxes : ~checked'[i]
             /\ labelPresent
                => (RequiredMarkers(label') = 0 <=> OwnMarkerOnly(label))
             /\ (lastArg \in NonWeekly /\ ~Includes(label, MarkerSpan))
                => UNCHANGED <<display, label, checked>> ]_vars

C5_Witness ==
    /\ rowPresent /\ labelPresent
    /\ prevArg = "monthly" /\ lastArg = "monthly"
    /\ display = "none" /\ AllUnchecked
    /\ RequiredMarkers(hostLabel) = 1 /\ RequiredMarkers(label) = 0

\* C6: on a page with both elements, when initialization has completed and
\* no change event or direct call has happened yet, toggleDaysOfWeek has
\* been called once with the select's value at load time: a select holding
\* 'weekly' leaves the container visible and an existing label with a
\* marker; any other value leaves it hidden with every checkbox unchecked.
C6_InitialStateFromValue ==
    (pc = "ready" /\ selectPresent /\ rowPresent /\ prevArg = "none")
    => /\ lastArg = value
       /\ ~threw
       /\ value = "weekly"
          => /\ display = "block"
             /\ labelPresent => RequiredMarkers(label) >= 1
       /\ value # "weekly" => display = "none" /\ AllUnchecked

C6_Witness ==
    /\ pc = "ready" /\ selectPresent /\ rowPresent /\ labelPresent
    /\ prevArg = "none" /\ lastArg = "weekly" /\ value = "weekly"
    /\ display = "block"
    /\ RequiredMarkers(hostLabel) = 0 /\ RequiredMarkers(label) = 1

C8_NeverThrows ==
    [][ \A v \in Values :
          Called(v)
          => /\ ~threw'
             /\ ~rowPresent => UNCHANGED <<display, label, checked>>
             /\ (rowPresent /\ ~labelPresent)
                => /\ display' = (IF v = "weekly" THEN "block" ELSE "none")
                   /\ label' = label
                   /\ v # "weekly" => \A i \in Boxes : ~checked'[i]
                   /\ v = "weekly" => checked' = checked ]_vars

C8_Witness ==
    /\ rowPresent /\ ~labelPresent /\ ~threw
    /\ prevArg = "weekly" /\ lastArg = "daily"
    /\ display = "none" /\ AllUnchecked

\* C9 as stated: when the container is absent, initialization subscribes no
\* change listener, injects no style block and changes no layout.
C9_Original ==
    (pc = "ready" /\ ~rowPresent)
    => ~listener /\ styleBlocks = 0 /\ ulDisplay = "" /\ ~liRows

\* C9 amended: when the container is absent, initialization throws nothing
\* and changes neither the container nor any list layout, but it still
\* subscribes the change listener when the recurrence-type input is
\* present, and it still injects the style block.
C9_AbsentContainerStillSetsUp ==
    [][ (DOMContentLoaded /\ ~rowPresent)
        => /\ ~threw'
           /\ listener' = selectPresent
           /\ styleBlocks' = styleBlocks + 1
           /\ UNCHANGED <<display, label, checked, ulDisplay, liRows>> ]_vars

C9_Witness ==
    /\ pc = "ready" /\ ~rowPresent /\ selectPresent
    /\ listener /\ styleBlocks = 1 /\ ~threw /\ lastArg = "weekly"

\* C10: a call toggleDaysOfWeek('weekly'), the initial one included, leaves
\* every checkbox as it was; the only steps that change a checkbox are a
\* user's click and a call with a non-weekly value, so a return to 'weekly'
\* does not restore a cleared selection.
C10_WeeklyKeepsCheckboxes ==
    [][ /\ (Called("weekly") \/ InitCalled("weekly")) => checked' = checked
        /\ checked' # checked
           => \/ \E i \in Boxes : UserToggle(i)
              \/ \E v \in NonWeekly : Called(v) \/ InitCalled(v) ]_vars

C10_Witness ==
    /\ pc = "ready" /\ rowPresent
    /\ prevArg = "none" /\ lastArg = "weekly"
    /\ \E i \in Boxes : checked[i]
    /\ display = "block"

====
